---- MODULE Spec2Model ----
(***************************************************************************)
(* Survivability export of MetaZebrobot (utils/export_module.py).          *)
(*                                                                         *)
(* The exporter scans a directory of per-dish JSON files, builds one       *)
(* detailed row per quality check of each dish, or one summary row per     *)
(* group of dishes, and writes the rows to a CSV file.                     *)
(*                                                                         *)
(* Python strings are modelled as tuples of one-character strings, so      *)
(* that slicing, concatenation and lexicographic comparison are computed   *)
(* and not assumed.  JSON values that the code does arithmetic on are      *)
(* tagged records (an integer, null, or an absent key).                    *)
(***************************************************************************)
EXTENDS Integers, Sequences, FiniteSets, TLC

VARIABLES
    dir_exists,   \* whether data_manager.dish_data_dir names a readable directory
    files,        \* the *.json files of that directory, in glob order
    output_file,  \* the file at output_path
    call,         \* the last export call: operation, return value, data built
    cli,          \* a run of bin/export_survivability.py
    dm            \* the dish store of the data manager and its last operation

vars == <<dir_exists, files, output_file, call, cli, dm>>

----------------------------------------------------------------------------
(* Bounds of the model.                                                    *)

MaxFiles == 2     \* files in the dish directory
MaxChecks == 2    \* quality checks of one dish
MaxCount == 2     \* fish_count of a dish
MaxDead == 1      \* num_dead of one quality check

----------------------------------------------------------------------------
(* Strings.                                                                *)

\* The characters the model uses, in ASCII order.
Alphabet ==
    <<" ", "0", "1", "2", "3", "4", "5", "6", "7", "8", "9", ":",
      "X", "_", "a", "b", "c", "k">>

CharCode(c) == CHOOSE i \in 1..Len(Alphabet) : Alphabet[i] = c

Digits == {"0", "1", "2", "3", "4", "5", "6", "7", "8", "9"}

DigitValue(c) == CharCode(c) - CharCode("0")

\* Python's  a < b  on str: lexicographic by code point.
RECURSIVE StrLess(_, _)
StrLess(a, b) ==
    IF a = <<>> THEN b # <<>>
    ELSE IF b = <<>> THEN FALSE
    ELSE IF Head(a) = Head(b) THEN StrLess(Tail(a), Tail(b))
    ELSE CharCode(Head(a)) < CharCode(Head(b))

\* Python's  c in s  for a one-character c.
Contains(s, c) == \E i \in 1..Len(s) : s[i] = c

\* Python's  s[:n]
Slice(s, n) == SubSeq(s, 1, IF Len(s) < n THEN Len(s) ELSE n)

\* Python's  s[n:]
Drop(s, n) == SubSeq(s, n + 1, Len(s))

Max(a, b) == IF a >= b THEN a ELSE b

\* A JSON null where a string is expected: dict.get returns None, which an
\* f-string formats as the text None and which no str compares with.
NoneStr == <<"None">>

IsNone(s) == s = NoneStr

----------------------------------------------------------------------------
(* JSON values the exporter does arithmetic on.                            *)

JInt(n) == [t |-> "int", v |-> n]
JNull == [t |-> "null", v |-> 0]
JAbsent == [t |-> "absent", v |-> 0]

\* dict.get(key, 0): the default replaces an absent key only; a stored null
\* is returned as None.
GetOrZero(j) == IF j.t = "absent" THEN JInt(0) ELSE j

\* int - x  raises TypeError unless x is a number.
IsNumber(j) == j.t = "int"

----------------------------------------------------------------------------
(* Dates: datetime.strptime(s, "%Y%m%d") and the difference in days.       *)

NoDate == [ok |-> FALSE, year |-> 0, month |-> 0, day |-> 0]

NonZeroDigits == Digits \ {"0"}

\* The %d directive, (3[01]|[12]\d|0[1-9]|[1-9]| [1-9]), matched at the
\* start of r: the first alternative that matches wins.
DayMatch(r) ==
    IF Len(r) >= 2 /\ r[1] = "3" /\ r[2] \in {"0", "1"}
    THEN [ok |-> TRUE, len |-> 2, val |-> 30 + DigitValue(r[2])]
    ELSE IF Len(r) >= 2 /\ r[1] \in {"1", "2"} /\ r[2] \in Digits
    THEN [ok |-> TRUE, len |-> 2, val |-> 10 * DigitValue(r[1]) + DigitValue(r[2])]
    ELSE IF Len(r) >= 2 /\ r[1] = "0" /\ r[2] \in NonZeroDigits
    THEN [ok |-> TRUE, len |-> 2, val |-> DigitValue(r[2])]
    ELSE IF Len(r) >= 1 /\ r[1] \in NonZeroDigits
    THEN [ok |-> TRUE, len |-> 1, val |-> DigitValue(r[1])]
    ELSE IF Len(r) >= 2 /\ r[1] = " " /\ r[2] \in NonZeroDigits
    THEN [ok |-> TRUE, len |-> 2, val |-> DigitValue(r[2])]
    ELSE [ok |-> FALSE, len |-> 0, val |-> 0]

\* The %m directive, (1[0-2]|0[1-9]|[1-9]), followed by %d: the regular
\* expression falls back to a one-digit month when no day follows the
\* two-digit one.  The result is the text matched (month, day, length).
MonthDayMatch(r) ==
    LET two == Len(r) >= 2 /\
               \/ r[1] = "1" /\ r[2] \in {"0", "1", "2"}
               \/ r[1] = "0" /\ r[2] \in NonZeroDigits
        one == Len(r) >= 1 /\ r[1] \in NonZeroDigits
        d2 == DayMatch(Drop(r, 2))
        d1 == DayMatch(Drop(r, 1))
    IN  IF two /\ d2.ok
        THEN [ok |-> TRUE, len |-> 2 + d2.len, day |-> d2.val,
              month |-> 10 * DigitValue(r[1]) + DigitValue(r[2])]
        ELSE IF one /\ d1.ok
        THEN [ok |-> TRUE, len |-> 1 + d1.len, day |-> d1.val,
              month |-> DigitValue(r[1])]
        ELSE [ok |-> FALSE, len |-> 0, day |-> 0, month |-> 0]

IsLeap(y) == (y % 4 = 0 /\ y % 100 # 0) \/ y % 400 = 0

DaysInMonth(y, m) ==
    IF m = 2 THEN (IF IsLeap(y) THEN 29 ELSE 28)
    ELSE IF m \in {4, 6, 9, 11} THEN 30 ELSE 31

\* strptime: four digits of year, month, day, nothing left over, and a date
\* that exists; anything else raises ValueError.
ParseDate(s) ==
    IF Len(s) < 4 \/ \E i \in 1..4 : s[i] \notin Digits THEN NoDate
    ELSE LET y == 1000 * DigitValue(s[1]) + 100 * DigitValue(s[2])
                  + 10 * DigitValue(s[3]) + DigitValue(s[4])
             md == MonthDayMatch(Drop(s, 4))
         IN  IF ~md.ok \/ 4 + md.len # Len(s) THEN NoDate
             ELSE IF y < 1 \/ md.day > DaysInMonth(y, md.month) THEN NoDate
             ELSE [ok |-> TRUE, year |-> y, month |-> md.month, day |-> md.day]

DaysBeforeMonth(y, m) ==
    <<0, 31, 59, 90, 120, 151, 181, 212, 243, 273, 304, 334>>[m]
    + (IF m > 2 /\ IsLeap(y) THEN 1 ELSE 0)

\* date.toordinal()
Ordinal(dt) ==
    LET p == dt.year - 1
    IN  p * 365 + (p \div 4) - (p \div 100) + (p \div 400)
        + DaysBeforeMonth(dt.year, dt.month) + dt.day

\* A variant that counts the days of the second date from the first day of
\* the calendar when the first date does not parse.
DaysBetweenOrSince(date1, date2) ==
    LET d1 == ParseDate(date1)
        d2 == ParseDate(date2)
    IN  IF d1.ok /\ d2.ok THEN Ordinal(d2) - Ordinal(d1)
        ELSE IF d2.ok THEN Ordinal(d2) ELSE 0

\* _calculate_days_between: 0 when either date does not parse.
CalculateDaysBetween(date1, date2) ==
    LET d1 == ParseDate(date1)
        d2 == ParseDate(date2)
    IN  IF d1.ok /\ d2.ok THEN Ordinal(d2) - Ordinal(d1) ELSE 0

----------------------------------------------------------------------------
(* The dish files.                                                         *)
(*                                                                         *)
(* A file holds text that is not JSON ("invalid"), a JSON value that is    *)
(* not a mapping ("array") or a mapping ("object").  quality_checks is the *)
(* mapping in its stored (insertion) order: a sequence of key and entry.   *)
(* An entry is a structured check ("dict"), a legacy note ("str") or any   *)
(* other JSON value ("other").                                             *)

DictCheck(num_dead, water_changed, vol) ==
    [type |-> "dict", num_dead |-> num_dead,
     water_changed |-> water_changed, vol_water_changed |-> vol]

StrCheck ==
    [type |-> "str", num_dead |-> JAbsent,
     water_changed |-> FALSE, vol_water_changed |-> 0]

OtherCheck ==
    [type |-> "other", num_dead |-> JAbsent,
     water_changed |-> FALSE, vol_water_changed |-> 0]

\* A record that stores no enclosure, and one that stores it.
NoEnclosure ==
    [stored |-> FALSE, in_beaker |-> FALSE, room |-> <<>>, vol_water_total |-> 0]

Enclosure(in_beaker, room, vol_water_total) ==
    [stored |-> TRUE, in_beaker |-> in_beaker, room |-> room,
     vol_water_total |-> vol_water_total]

DishFile(dish_id, cross_id, genotype, dof, fish_count, has_checks, checks) ==
    [json |-> "object", has_dish_id |-> TRUE, dish_id |-> dish_id,
     cross_id |-> cross_id, genotype |-> genotype, dof |-> dof,
     fish_count |-> fish_count, has_quality_checks |-> has_checks,
     quality_checks |-> checks, enclosure |-> NoEnclosure]

WithEnclosure(file, enclosure) == [file EXCEPT !.enclosure = enclosure]

OtherFile(json, has_dish_id) ==
    [json |-> json, has_dish_id |-> has_dish_id, dish_id |-> <<>>,
     cross_id |-> <<>>, genotype |-> <<>>, dof |-> <<>>,
     fish_count |-> 0, has_quality_checks |-> FALSE, quality_checks |-> <<>>,
     enclosure |-> NoEnclosure]

----------------------------------------------------------------------------
(* _collect_dishes_data                                                    *)

\* json.load raises on text that is not JSON; the handler of the loop logs
\* it and the loop goes on.
LoadRaises(file) == file.json = "invalid"

\* not isinstance(dish_data, dict) or 'dish_id' not in dish_data
InvalidDishFile(file) == file.json # "object" \/ ~file.has_dish_id

RECURSIVE LoadFiles(_)
LoadFiles(json_files) ==
    IF json_files = <<>> THEN <<>>
    ELSE LET file == Head(json_files)
             rest == LoadFiles(Tail(json_files))
         IN  IF LoadRaises(file) THEN rest
             ELSE IF InvalidDishFile(file) THEN rest
             ELSE <<file>> \o rest

\* A variant in which one file that fails to load ends the scan with an
\* empty list.
CollectOrAbort(exists, json_files) ==
    IF exists /\ \A i \in 1..Len(json_files) : ~LoadRaises(json_files[i])
    THEN LoadFiles(json_files)
    ELSE <<>>

\* A directory that does not exist has no file matching *.json.
CollectDishesData(exists, json_files) ==
    IF exists THEN LoadFiles(json_files) ELSE <<>>

----------------------------------------------------------------------------
(* _process_survivability_data                                             *)

\* The date of a check: the first 8 characters of a key holding a ':'.
CheckDate(check_time) ==
    IF Contains(check_time, ":") THEN Slice(check_time, 8) ELSE check_time

\* A variant that cuts the key of a legacy check as that of a structured one.
NormalizeAlike(check_time, check) ==
    [date |-> CheckDate(check_time),
     num_dead |-> IF check.type = "dict" THEN GetOrZero(check.num_dead) ELSE JInt(0),
     water_changed |-> check.type = "dict" /\ check.water_changed,
     vol_water_changed |->
         IF check.type = "dict" /\ check.water_changed
         THEN check.vol_water_changed ELSE 0]

\* The entry appended to check_data for a structured or a legacy check.
NormalizeCheck(check_time, check) ==
    IF check.type = "dict"
    THEN [date |-> CheckDate(check_time),
          num_dead |-> GetOrZero(check.num_dead),
          water_changed |-> check.water_changed,
          vol_water_changed |->
              IF check.water_changed THEN check.vol_water_changed ELSE 0]
    ELSE [date |-> check_time, num_dead |-> JInt(0),
          water_changed |-> FALSE, vol_water_changed |-> 0]

\* A variant that gives up the entries that follow one that is no check.
RECURSIVE ExtractUntilMalformed(_)
ExtractUntilMalformed(quality_checks) ==
    IF quality_checks = <<>> THEN <<>>
    ELSE LET item == Head(quality_checks)
         IN  IF item.check.type \in {"dict", "str"}
             THEN <<NormalizeCheck(item.key, item.check)>>
                  \o ExtractUntilMalformed(Tail(quality_checks))
             ELSE <<>>

\* The loop over quality_checks.items(): other entries are passed over.
RECURSIVE ExtractCheckData(_)
ExtractCheckData(quality_checks) ==
    IF quality_checks = <<>> THEN <<>>
    ELSE LET item == Head(quality_checks)
             rest == ExtractCheckData(Tail(quality_checks))
         IN  IF item.check.type \in {"dict", "str"}
             THEN <<NormalizeCheck(item.key, item.check)>> \o rest
             ELSE rest

\* A variant that puts x before the entries of its own date.
InsertBeforeEqual(sorted, x) ==
    LET later == {i \in 1..Len(sorted) : ~StrLess(sorted[i].date, x.date)}
        pos == IF later = {} THEN Len(sorted) + 1
               ELSE CHOOSE i \in later : \A j \in later : i <= j
    IN  SubSeq(sorted, 1, pos - 1) \o <<x>> \o SubSeq(sorted, pos, Len(sorted))

\* list.sort(key=date) is stable: x goes before the first entry whose date
\* is greater than its own.
InsertByDate(sorted, x) ==
    LET later == {i \in 1..Len(sorted) : StrLess(x.date, sorted[i].date)}
        pos == IF later = {} THEN Len(sorted) + 1
               ELSE CHOOSE i \in later : \A j \in later : i <= j
    IN  SubSeq(sorted, 1, pos - 1) \o <<x>> \o SubSeq(sorted, pos, Len(sorted))

RECURSIVE SortByDate(_)
SortByDate(check_data) ==
    IF check_data = <<>> THEN <<>>
    ELSE InsertByDate(SortByDate(SubSeq(check_data, 1, Len(check_data) - 1)),
                      check_data[Len(check_data)])

\* A variant that clamps the count at zero.
ClampedRemaining(remaining, num_dead) == Max(0, remaining - num_dead)

\* remaining -= num_dead
NextRemaining(remaining, num_dead) == remaining - num_dead

\* The survival rate is a quotient, kept as numerator and denominator.
Rate(num, den) == [num |-> num, den |-> den]

\* A variant that divides by the count, or by 1 when the count is 0.
SurvivalRateOverCount(remaining, initial_count) ==
    Rate(remaining * 100, Max(1, initial_count))

\* (remaining / initial_count * 100) if initial_count > 0 else 0
SurvivalRate(remaining, initial_count) ==
    IF initial_count > 0 THEN Rate(remaining * 100, initial_count)
    ELSE Rate(0, 1)

\* The default of dish.get and enclosure.get for a text field.
Unknown == <<"u", "n", "k", "n", "o", "w", "n">>

\* The text of a tuple of one string, as csv writes it: ('a',)
TupleText(s) == <<"(", "'">> \o s \o <<"'", ",", ")">>

\* room = enclosure.get('room', 'unknown'),  -- the comma at the end of the
\* line makes room a tuple that holds the string.
RoomOf(dish) ==
    TupleText(IF dish.enclosure.stored THEN dish.enclosure.room ELSE Unknown)

\* The row of one check.
MakeRow(dish, check, remaining) ==
    [dish_id |-> dish.dish_id,
     cross_id |-> dish.cross_id,
     genotype |-> dish.genotype,
     date_fertilized |-> dish.dof,
     initial_count |-> dish.fish_count,
     check_date |-> check.date,
     fish_deaths |-> check.num_dead.v,
     cumulative_deaths |-> dish.fish_count - remaining,
     remaining |-> remaining,
     survival_rate |-> SurvivalRate(remaining, dish.fish_count),
     days_since_fertilization |-> CalculateDaysBetween(dish.dof, check.date),
     in_beaker |-> IF dish.enclosure.in_beaker THEN "Yes" ELSE "No",
     vol_water_total |-> dish.enclosure.vol_water_total,
     room |-> RoomOf(dish),
     water_changed |-> IF check.water_changed THEN "Yes" ELSE "No",
     vol_water_changed |-> check.vol_water_changed]

\* The loop over the sorted checks.  Every row is appended to report_rows
\* as soon as it is built; a num_dead that is no number raises TypeError at
\* its check, and the handler of the dish loop leaves report_rows as it is.
RECURSIVE AccumulateRows(_, _, _, _)
AccumulateRows(dish, checks, remaining, report_rows) ==
    IF checks = <<>> THEN report_rows
    ELSE LET check == Head(checks)
         IN  IF ~IsNumber(check.num_dead) THEN report_rows
             ELSE LET left == NextRemaining(remaining, check.num_dead.v)
                  IN  AccumulateRows(dish, Tail(checks), left,
                          Append(report_rows, MakeRow(dish, check, left)))

\* A variant that skips a dish only when the key is missing.
SkipDishWithoutKey(dish) == ~dish.has_quality_checks

\* if not quality_checks: continue
SkipDish(dish) == ~dish.has_quality_checks \/ dish.quality_checks = <<>>

\* One pass of the dish loop.
ProcessDish(dish, report_rows) ==
    IF SkipDish(dish) THEN report_rows
    ELSE AccumulateRows(dish, SortByDate(ExtractCheckData(dish.quality_checks)),
                        dish.fish_count, report_rows)

RECURSIVE ProcessDishes(_, _)
ProcessDishes(dishes_data, report_rows) ==
    IF dishes_data = <<>> THEN report_rows
    ELSE ProcessDishes(Tail(dishes_data), ProcessDish(Head(dishes_data), report_rows))

ProcessSurvivabilityData(dishes_data) == ProcessDishes(dishes_data, <<>>)

----------------------------------------------------------------------------
(* _process_summary_data                                                   *)
(*                                                                         *)
(* summary is the dict of the code in insertion order: a sequence of       *)
(* group key and group data.                                               *)

\* f"{cross_id}_{genotype}_{dof}"
GroupKey(cross_id, genotype, dof) ==
    cross_id \o <<"_">> \o genotype \o <<"_">> \o dof

NewGroup(dish) ==
    [cross_id |-> dish.cross_id, genotype |-> dish.genotype,
     date_fertilized |-> dish.dof, dish_count |-> 0, total_initial |-> 0,
     total_surviving |-> 0, survival_rate |-> Rate(0, 1), max_days |-> 0]

HasGroup(summary, group_key) == \E i \in 1..Len(summary) : summary[i].key = group_key

GroupIndex(summary, group_key) ==
    CHOOSE i \in 1..Len(summary) : summary[i].key = group_key

\* if group_key not in summary: summary[group_key] = {...}
EnsureGroup(summary, group_key, dish) ==
    IF HasGroup(summary, group_key) THEN summary
    ELSE Append(summary, [key |-> group_key, data |-> NewGroup(dish)])

\* dish_count += 1; total_initial += initial_count
CountDish(summary, i, dish) ==
    [summary EXCEPT ![i].data.dish_count = @ + 1,
                    ![i].data.total_initial = @ + dish.fish_count]

\* The loop over quality_checks.items(): only structured checks count; a
\* num_dead that is no number raises TypeError.
RECURSIVE FinalCount(_, _, _)
FinalCount(quality_checks, final_count, latest_date) ==
    IF quality_checks = <<>>
    THEN [raised |-> FALSE, final_count |-> final_count, latest_date |-> latest_date]
    ELSE LET item == Head(quality_checks)
             num_dead == GetOrZero(item.check.num_dead)
             check_date == CheckDate(item.key)
         IN  IF item.check.type # "dict"
             THEN FinalCount(Tail(quality_checks), final_count, latest_date)
             ELSE IF ~IsNumber(num_dead)
             THEN [raised |-> TRUE, final_count |-> final_count,
                   latest_date |-> latest_date]
             ELSE FinalCount(Tail(quality_checks), final_count - num_dead.v,
                      IF StrLess(latest_date, check_date) THEN check_date
                      ELSE latest_date)

\* total_surviving += max(0, final_count)
AddSurviving(summary, i, final_count) ==
    [summary EXCEPT ![i].data.total_surviving = @ + Max(0, final_count)]

\* if latest_date: max_days = max(max_days, days)
UpdateMaxDays(summary, i, dof, latest_date) ==
    IF latest_date = <<>> THEN summary
    ELSE [summary EXCEPT ![i].data.max_days =
              Max(@, CalculateDaysBetween(dof, latest_date))]

\* One pass of the dish loop: the group is created and counted before the
\* checks are read, so an exception raised by a check leaves both in place.
SummarizeDish(summary, dish) ==
    IF SkipDish(dish) THEN summary
    ELSE LET group_key == GroupKey(dish.cross_id, dish.genotype, dish.dof)
             created == EnsureGroup(summary, group_key, dish)
             i == GroupIndex(created, group_key)
             counted == CountDish(created, i, dish)
             walk == FinalCount(dish.quality_checks, dish.fish_count, <<>>)
         IN  IF walk.raised THEN counted
             ELSE UpdateMaxDays(AddSurviving(counted, i, walk.final_count),
                                i, dish.dof, walk.latest_date)

RECURSIVE SummarizeDishes(_, _)
SummarizeDishes(dishes_data, summary) ==
    IF dishes_data = <<>> THEN summary
    ELSE SummarizeDishes(Tail(dishes_data), SummarizeDish(summary, Head(dishes_data)))

\* A variant that computes the rate of every group, over 1 when the group
\* has no initial fish.
WithRateOfEveryGroup(data) ==
    [data EXCEPT !.survival_rate =
         Rate(data.total_surviving * 100, Max(1, data.total_initial))]

\* survival_rate = total_surviving / total_initial * 100 if total_initial > 0
WithSurvivalRate(data) ==
    IF data.total_initial > 0
    THEN [data EXCEPT !.survival_rate =
              Rate(data.total_surviving * 100, data.total_initial)]
    ELSE data

\* (cross_id, genotype) < (cross_id, genotype) on tuples of str
GroupLess(a, b) ==
    \/ StrLess(a.cross_id, b.cross_id)
    \/ a.cross_id = b.cross_id /\ StrLess(a.genotype, b.genotype)

InsertByGroup(sorted, x) ==
    LET later == {i \in 1..Len(sorted) : GroupLess(x, sorted[i])}
        pos == IF later = {} THEN Len(sorted) + 1
               ELSE CHOOSE i \in later : \A j \in later : i <= j
    IN  SubSeq(sorted, 1, pos - 1) \o <<x>> \o SubSeq(sorted, pos, Len(sorted))

\* A variant that leaves the rows in the order the groups were created.
KeepGroupOrder(summary_rows) == summary_rows

RECURSIVE SortByGroup(_)
SortByGroup(summary_rows) ==
    IF summary_rows = <<>> THEN <<>>
    ELSE InsertByGroup(SortByGroup(SubSeq(summary_rows, 1, Len(summary_rows) - 1)),
                       summary_rows[Len(summary_rows)])

\* The summary dict after the dish loop.
SummaryOf(dishes_data) == SummarizeDishes(dishes_data, <<>>)

\* summary_rows before the sort.
SummaryRows(dishes_data) ==
    LET summary == SummaryOf(dishes_data)
    IN  [i \in 1..Len(summary) |-> WithSurvivalRate(summary[i].data)]

\* The sort compares the key tuples; None < str raises TypeError.  Every
\* row is compared with another one, so the sort raises when some cross_id
\* is None and some is a str.  The sort is outside the handler of the dish
\* loop: the exception leaves _process_summary_data.
SortRaises(summary_rows) ==
    \E i, j \in 1..Len(summary_rows) :
        IsNone(summary_rows[i].cross_id) /\ ~IsNone(summary_rows[j].cross_id)

SummaryRaises(dishes_data) == SortRaises(SummaryRows(dishes_data))

\* The rows returned: none when the sort raises.
ProcessSummaryData(dishes_data) ==
    IF SummaryRaises(dishes_data) THEN <<>>
    ELSE SortByGroup(SummaryRows(dishes_data))

----------------------------------------------------------------------------
(* _write_csv_report                                                       *)
(*                                                                         *)
(* The file at output_path: whether it exists, whether the header line is  *)
(* in it, and its data rows.                                               *)

NoFile == [exists |-> FALSE, header |-> FALSE, rows |-> <<>>]

\* A complete report left at output_path by an earlier run.
EarlierFile == [exists |-> TRUE, header |-> TRUE, rows |-> <<[earlier |-> TRUE]>>]

\* open(output_path, 'w') creates or truncates the file; the writer then
\* puts the header and the rows, line by line.
FileAfter(report_data, lines) ==
    [exists |-> TRUE, header |-> lines >= 1,
     rows |-> SubSeq(report_data, 1, Max(lines, 1) - 1)]

\* A variant that opens the file before it looks at the data.
WriteCsvOpenFirst(report_data, old_file) ==
    {[ret |-> FALSE, failure |-> "open", file |-> old_file]}
    \cup (IF report_data = <<>>
          THEN {[ret |-> FALSE, failure |-> "none",
                 file |-> FileAfter(report_data, 0)]}
          ELSE {[ret |-> FALSE, failure |-> "write",
                 file |-> FileAfter(report_data, n)] : n \in 0..Len(report_data)}
               \cup {[ret |-> TRUE, failure |-> "none",
                      file |-> FileAfter(report_data, Len(report_data) + 1)]})

\* A variant that opens the file for appending: the rows are added to the
\* rows the file holds.
WriteCsvAppend(report_data, old_file) ==
    IF report_data = <<>>
    THEN {[ret |-> FALSE, failure |-> "none", file |-> old_file]}
    ELSE {[ret |-> FALSE, failure |-> "open", file |-> old_file],
          [ret |-> TRUE, failure |-> "none",
           file |-> [exists |-> TRUE, header |-> TRUE,
                     rows |-> old_file.rows \o report_data]]}

\* The outcomes of one call: False without opening the file when there is
\* nothing to write; otherwise open may fail (the file is untouched), a
\* write may fail after any number of lines (the handler returns False and
\* removes nothing), or all lines are written.
WriteCsvReport(report_data, old_file) ==
    IF report_data = <<>>
    THEN {[ret |-> FALSE, failure |-> "none", file |-> old_file]}
    ELSE {[ret |-> FALSE, failure |-> "open", file |-> old_file]}
         \cup {[ret |-> FALSE, failure |-> "write",
                file |-> FileAfter(report_data, n)] : n \in 0..Len(report_data)}
         \cup {[ret |-> TRUE, failure |-> "none",
                file |-> FileAfter(report_data, Len(report_data) + 1)]}

----------------------------------------------------------------------------
(* The export operations.                                                  *)

\* propagated: an exception left the operation; rerun: the call before
\* this one was a successful detailed export.
NoCall ==
    [op |-> "none", ret |-> FALSE, failure |-> "none", propagated |-> FALSE,
     rerun |-> FALSE, dishes_data |-> <<>>, data |-> <<>>]

\* An exception on its way out of the body of an export.
Raised(op, dishes_data) ==
    [op |-> op, ret |-> FALSE, failure |-> "process", propagated |-> TRUE,
     rerun |-> FALSE, dishes_data |-> dishes_data, data |-> <<>>]

\* A variant without the handler: the exception leaves the operation.
Uncaught(outcome) == outcome

\* except Exception as e: logger.error(...); return False
Caught(outcome) == [outcome EXCEPT !.propagated = FALSE, !.ret = FALSE]

\* The common shape of both exports: collect, return False when no dish was
\* loaded, else process and write.  (Each value is bound once, as the code
\* computes it once.)
Export(op, dishes_data, raised, data) ==
    IF dishes_data = <<>>
    THEN /\ output_file' = output_file
         /\ call' = [op |-> op, ret |-> FALSE, failure |-> "none",
                     propagated |-> FALSE, rerun |-> FALSE,
                     dishes_data |-> dishes_data, data |-> <<>>]
    ELSE IF raised
    THEN /\ output_file' = output_file
         /\ call' = Caught(Raised(op, dishes_data))
    ELSE \E w \in WriteCsvReport(data, output_file) :
             /\ output_file' = w.file
             /\ call' = [op |-> op, ret |-> w.ret, failure |-> w.failure,
                         propagated |-> FALSE,
                         rerun |-> op = "report" /\ call.op = "report" /\ call.ret,
                         dishes_data |-> dishes_data, data |-> data]

\* export_survivability_report(output_path)
ExportSurvivabilityReport ==
    /\ \E dishes_data \in {CollectDishesData(dir_exists, files)} :
           \E report_data \in {ProcessSurvivabilityData(dishes_data)} :
               Export("report", dishes_data, FALSE, report_data)
    /\ UNCHANGED <<dir_exists, files, cli, dm>>

\* export_survivability_summary(output_path)
ExportSurvivabilitySummary ==
    /\ \E dishes_data \in {CollectDishesData(dir_exists, files)} :
           \E summary_data \in {ProcessSummaryData(dishes_data)} :
               Export("summary", dishes_data, SummaryRaises(dishes_data), summary_data)
    /\ UNCHANGED <<dir_exists, files, cli, dm>>

Next == ExportSurvivabilityReport \/ ExportSurvivabilitySummary

----------------------------------------------------------------------------
(* bin/export_survivability.py: main().                                    *)
(*                                                                         *)
(* A directory is named by where its path comes from: "D" is the value of  *)
(* --dishes-dir, "C" the directory of the configuration file, "local" the  *)
(* fallback of the data manager, "None" the value before initialize().     *)
(* The exports themselves are the operations above; in a run they are      *)
(* their reading of data_manager.dish_data_dir and their return value.     *)

NoRun ==
    [pc |-> "idle", dishes_dir |-> "", summary |-> FALSE, both |-> FALSE,
     config_dir |-> "", with_data |-> {}, dish_data_dir |-> "None",
     is_initialized |-> FALSE, read |-> <<>>, exit |-> ""]

\* DataManager.initialize: config.dish_data_dir, or the local directory
\* when none is configured.
ConfiguredDir(config_dir) == IF config_dir = "" THEN "local" ELSE config_dir

\* The return values of an export that reads dish_dir: False when it holds
\* no dish with checks; otherwise True, or False when the write fails.
ExportReturns(dish_dir, with_data) ==
    IF dish_dir \in with_data THEN BOOLEAN ELSE {FALSE}

\* The runs: the arguments, the configuration, the directories that hold
\* dishes, and a data manager that is fresh or was initialized earlier in
\* the process.
Runs ==
    {[pc |-> "override", dishes_dir |-> d, summary |-> s, both |-> b,
      config_dir |-> c, with_data |-> w,
      dish_data_dir |-> IF i THEN ConfiguredDir(c) ELSE "None",
      is_initialized |-> i, read |-> <<>>, exit |-> ""] :
        d \in {"", "D"}, s \in BOOLEAN, b \in BOOLEAN, c \in {"", "C"},
        w \in SUBSET {"D", "C", "local"}, i \in BOOLEAN}

\* if args.dishes_dir: data_manager.dish_data_dir = Path(args.dishes_dir)
CliOverride ==
    /\ cli.pc = "override"
    /\ cli' = [cli EXCEPT !.pc = "initialize",
                          !.dish_data_dir =
                              IF cli.dishes_dir # "" THEN cli.dishes_dir ELSE @]
    /\ UNCHANGED <<dir_exists, files, output_file, call, dm>>

\* if not data_manager.is_initialized: data_manager.initialize()
CliInitialize ==
    /\ cli.pc = "initialize"
    /\ cli' = IF cli.is_initialized
              THEN [cli EXCEPT !.pc = "detailed"]
              ELSE [cli EXCEPT !.pc = "detailed",
                               !.dish_data_dir = ConfiguredDir(cli.config_dir),
                               !.is_initialized = TRUE]
    /\ UNCHANGED <<dir_exists, files, output_file, call, dm>>

\* One export of the run: it reads data_manager.dish_data_dir; main returns
\* 1 when it fails and goes on (to next, or to the return of 0) otherwise.
CliExport(wanted, next) ==
    IF ~wanted
    THEN cli' = [cli EXCEPT !.pc = next, !.exit = IF next = "done" THEN "0" ELSE @]
    ELSE \E ret \in ExportReturns(cli.dish_data_dir, cli.with_data) :
             cli' = [cli EXCEPT
                        !.read = Append(@, cli.dish_data_dir),
                        !.pc = IF ret THEN next ELSE "done",
                        !.exit = IF ~ret THEN "1"
                                 ELSE IF next = "done" THEN "0" ELSE @]

\* generate_detailed = not args.summary or args.both
CliDetailed ==
    /\ cli.pc = "detailed"
    /\ CliExport(~cli.summary \/ cli.both, "summary")
    /\ UNCHANGED <<dir_exists, files, output_file, call, dm>>

\* generate_summary = args.summary or args.both
CliSummary ==
    /\ cli.pc = "summary"
    /\ CliExport(cli.summary \/ cli.both, "done")
    /\ UNCHANGED <<dir_exists, files, output_file, call, dm>>

CliNext == CliOverride \/ CliInitialize \/ CliDetailed \/ CliSummary

----------------------------------------------------------------------------
(* The directories the exports are run on.                                 *)

Dof == <<"2", "0", "2", "4", "0", "1", "0", "1">>

\* The keys of the checks of a dish, in the order they were stored: the
\* second is earlier than the first, the third has a time part and the date
\* of the second.
CheckKeys ==
    <<<<"2", "0", "2", "4", "0", "1", "0", "3">>,
      <<"2", "0", "2", "4", "0", "1", "0", "1">>,
      <<"2", "0", "2", "4", "0", "1", "0", "1", "1", "2", ":", "0", "0", ":", "0", "0">>>>

CrossIds == {<<"a">>, <<"a", "_", "b">>}

Genotypes == {<<"c">>, <<"b", "_", "c">>}

\* The dish_id of the i-th file: a file is named after its dish.
DishId(i) == <<"X", "_", Alphabet[CharCode("0") + i]>>

WithDishId(file, i) ==
    IF file.json = "object" /\ file.has_dish_id
    THEN [file EXCEPT !.dish_id = DishId(i)]
    ELSE file

\* The directories of k files drawn from a set of file contents.
DirectoriesOf(contents, k) ==
    {[i \in 1..k |-> WithDishId(f[i], i)] : f \in [1..k -> contents]}

\* The quality_checks mappings of at most n entries.
CheckMaps(entries, n) ==
    UNION {{[i \in 1..k |-> [key |-> CheckKeys[i], check |-> e[i]]] :
                e \in [1..k -> entries]} : k \in 0..n}

\* A structured check with any stored integer or null as num_dead, a legacy
\* note, or a value that is no check.
AnyEntry ==
    {DictCheck(JInt(n), FALSE, 0) : n \in -1..MaxDead}
    \cup {DictCheck(JNull, FALSE, 0), StrCheck, OtherCheck}

\* One dish with any checks and any fish_count.
OneDishDirectories ==
    DirectoriesOf(
        {DishFile(<<>>, <<"a">>, <<"c">>, Dof, n, TRUE, checks) :
            n \in 0..MaxCount, checks \in CheckMaps(AnyEntry, MaxChecks)}, 1)

\* Files that load or not, and dishes whose checks are sound or not.
MixedFiles ==
    {OtherFile("invalid", FALSE), OtherFile("array", FALSE),
     OtherFile("object", FALSE),
     DishFile(<<>>, <<"a">>, <<"c">>, Dof, MaxCount, FALSE, <<>>)}
    \cup {DishFile(<<>>, <<"a">>, <<"c">>, Dof, MaxCount, TRUE, checks) :
            checks \in CheckMaps({DictCheck(JInt(1), FALSE, 0),
                                  DictCheck(JNull, FALSE, 0)}, 2)}

MixedDirectories == UNION {DirectoriesOf(MixedFiles, k) : k \in 0..MaxFiles}

\* Dishes of several crosses and genotypes, one sound check each.
GroupedFiles ==
    {DishFile(<<>>, c, g, Dof, n, TRUE,
              <<[key |-> CheckKeys[1], check |-> DictCheck(JInt(1), FALSE, 0)]>>) :
        c \in CrossIds, g \in Genotypes, n \in (MaxCount - 1)..MaxCount}

GroupedDirectories == UNION {DirectoriesOf(GroupedFiles, k) : k \in 2..MaxFiles}

\* Dishes whose cross_id is a stored null or a string.
NullCrossFiles ==
    {DishFile(<<>>, c, <<"c">>, Dof, MaxCount, TRUE,
              <<[key |-> CheckKeys[1], check |-> DictCheck(JInt(1), FALSE, 0)]>>) :
        c \in {NoneStr, <<"a">>}}

NullCrossDirectories == DirectoriesOf(NullCrossFiles, 2)

\* Dishes with or without an enclosure, one check each with or without a
\* change of water.
EnclosureFiles ==
    {WithEnclosure(
         DishFile(<<>>, <<"a">>, <<"c">>, Dof, MaxCount, TRUE,
                  <<[key |-> CheckKeys[1],
                     check |-> DictCheck(JInt(0), water_changed, 1)]>>),
         enclosure) :
        water_changed \in BOOLEAN,
        enclosure \in {NoEnclosure} \cup
                      {Enclosure(in_beaker, <<"a">>, 1) : in_beaker \in BOOLEAN}}

EnclosureDirectories == DirectoriesOf(EnclosureFiles, 1)

\* A dof that is no date.
ShortDof == <<"2", "0", "2", "4">>

\* Dishes of two checks, one under a key with a time and one under the key
\* of the same day, stored in either order, each structured or a legacy
\* note; the dof is a date or not.
TimedFiles ==
    {DishFile(<<>>, <<"a">>, <<"c">>, dof, MaxCount, TRUE,
              <<[key |-> keys[1], check |-> first],
                [key |-> keys[2], check |-> second]>>) :
        dof \in {Dof, ShortDof},
        keys \in {<<CheckKeys[3], CheckKeys[2]>>, <<CheckKeys[2], CheckKeys[3]>>},
        first \in {StrCheck, DictCheck(JInt(0), FALSE, 0),
                   DictCheck(JInt(MaxDead), FALSE, 0)},
        second \in {StrCheck, DictCheck(JInt(0), FALSE, 0),
                    DictCheck(JInt(MaxDead), FALSE, 0)}}

TimedDirectories == DirectoriesOf(TimedFiles, 1)

Directories ==
    OneDishDirectories \cup MixedDirectories \cup GroupedDirectories
    \cup NullCrossDirectories \cup EnclosureDirectories \cup TimedDirectories

----------------------------------------------------------------------------
(* The dish store: FishDishController over DataManager.                    *)
(*                                                                         *)
(* Every dish has a file of its own, named after its dish_id and dof.  A   *)
(* file holds a dish, or text that does not load ("corrupt", what a write  *)
(* that failed part-way leaves), or is not there ("absent").  An optional  *)
(* field that is None is not stored (exclude_none) and loads as None.      *)

\* datetime.now().strftime("%Y%m%d")
Today == <<"2", "0", "2", "4", "0", "1", "0", "5">>

\* f"{cross_id}_{dish_number}"
NewDishId(cross_id, dish_number) ==
    cross_id \o <<"_", Alphabet[CharCode("0") + dish_number]>>

\* f"{dish_id}_{dof}.json", without the extension
FileStem(dish_id, dof) == dish_id \o <<"_">> \o dof

\* glob(f"{dish_id}_*.json"): the names that start with the id and a '_'.
GlobMatches(dish_id, stem) ==
    /\ Len(stem) >= Len(dish_id) + 1
    /\ SubSeq(stem, 1, Len(dish_id) + 1) = dish_id \o <<"_">>

\* What is not a dish: an absent or corrupt file, or the None of a lookup.
Blank(kind) ==
    [kind |-> kind, dish_id |-> <<>>, cross_id |-> <<>>, dof |-> <<>>,
     fish_count |-> 0, status |-> "", termination_date |-> NoneStr,
     termination_reason |-> NoneStr, quality_checks |-> <<>>]

\* FishDish.create_new: an active dish with the check of its creation.
CreateNew(cross_id, dish_number, dof, fish_count) ==
    [kind |-> "dish", dish_id |-> NewDishId(cross_id, dish_number),
     cross_id |-> cross_id, dof |-> dof, fish_count |-> fish_count,
     status |-> "active", termination_date |-> NoneStr,
     termination_reason |-> NoneStr,
     quality_checks |-> <<[key |-> Today, check |-> DictCheck(JAbsent, FALSE, 0)]>>]

\* The crosses and dish numbers of the dishes that are created: the id of
\* the first, X_1, followed by '_' starts the id of the second, X_1_2.
NewDishes ==
    {[cross_id |-> <<"X">>, dish_number |-> 1],
     [cross_id |-> <<"X", "_", "1">>, dish_number |-> 2]}

StoredIds == {NewDishId(n.cross_id, n.dish_number) : n \in NewDishes}

Stems == {FileStem(id, Dof) : id \in StoredIds}

\* The time of the checks that are added: a second check at the same time
\* takes the key of the first.
CheckTimes == {CheckKeys[3]}

\* A termination date and a reason given by the caller.
GivenDate == <<"2", "0", "2", "4", "0", "2", "0", "1">>

GivenReason == <<"k">>

\* No operation yet.
NoOperation ==
    [op |-> "none", dish_id |-> <<>>, ret |-> FALSE, message |-> "none"]

\* An empty dish directory and a data manager whose cache is not loaded:
\* data_cache['fish_dishes'] is {}, with no 'fish_dishes' entry to hold the
\* dishes.
NoStore ==
    [files |-> [s \in Stems |-> Blank("absent")], cache_ready |-> FALSE,
     cache |-> [id \in StoredIds |-> Blank("absent")],
     created |-> [id \in StoredIds |-> -1], last |-> NoOperation]

\* DataManager.load_single_dish under FishDishController.get_dish: the
\* first file the glob yields (any of the matches), None when it does not
\* load.
GetDish(store_files, dish_id) ==
    LET matches == {s \in Stems : /\ store_files[s].kind # "absent"
                                  /\ GlobMatches(dish_id, s)}
    IN  IF matches = {} THEN {Blank("none")}
        ELSE {IF store_files[s].kind = "dish" THEN store_files[s]
              ELSE Blank("none") : s \in matches}

\* DataManager.save_fish_dish: the directory cannot be made or the file not
\* opened (False, nothing written); the write fails part-way (False, the
\* file is cut short, the cache as it was); or the file is written, and the
\* cache entry of the dish is set, which raises KeyError, caught as False,
\* when the cache is not loaded.
SaveFishDish(store, dish_data) ==
    LET stem == FileStem(dish_data.dish_id, dish_data.dof)
    IN  {[files |-> store.files, cache |-> store.cache,
          ret |-> FALSE, written |-> FALSE],
         [files |-> [store.files EXCEPT ![stem] = Blank("corrupt")],
          cache |-> store.cache, ret |-> FALSE, written |-> FALSE],
         [files |-> [store.files EXCEPT ![stem] = dish_data],
          cache |-> IF store.cache_ready
                    THEN [store.cache EXCEPT ![dish_data.dish_id] = dish_data]
                    ELSE store.cache,
          ret |-> store.cache_ready, written |-> TRUE]}

\* FishDishController.create_dish
CreateDish(cross_id, dish_number, fish_count) ==
    LET dish == CreateNew(cross_id, dish_number, Dof, fish_count)
    IN  \E existing_dish \in GetDish(dm.files, dish.dish_id) :
            IF existing_dish.kind = "dish"
            THEN dm' = [dm EXCEPT !.last = [op |-> "create_dish",
                                            dish_id |-> dish.dish_id,
                                            ret |-> FALSE,
                                            message |-> "already exists"]]
            ELSE \E saved \in SaveFishDish(dm, dish) :
                     dm' = [dm EXCEPT
                               !.files = saved.files,
                               !.cache = saved.cache,
                               !.created[dish.dish_id] =
                                   IF saved.written THEN fish_count ELSE @,
                               !.last = [op |-> "create_dish",
                                         dish_id |-> dish.dish_id,
                                         ret |-> saved.ret,
                                         message |-> IF saved.ret THEN "saved"
                                                     ELSE "failed to save"]]

\* The common end of the two updates: save the dish that was loaded and
\* changed, under its own name.
SaveLoaded(op, dish_id, dish) ==
    \E saved \in SaveFishDish(dm, dish) :
        dm' = [dm EXCEPT !.files = saved.files,
                         !.cache = saved.cache,
                         !.last = [op |-> op, dish_id |-> dish_id,
                                   ret |-> saved.ret,
                                   message |-> IF saved.ret THEN "saved"
                                               ELSE "failed to save"]]

NotFound(op, dish_id) ==
    dm' = [dm EXCEPT !.last = [op |-> op, dish_id |-> dish_id, ret |-> FALSE,
                               message |-> "not found"]]

\* A variant that also takes the dead of the check off fish_count.
AddCheckAndCount(dish, check_time, check) ==
    [dish EXCEPT !.quality_checks = Append(@, [key |-> check_time, check |-> check]),
                 !.fish_count = @ - check.num_dead.v]

\* FishDish.add_quality_check: self.quality_checks[check_time] = ...; a
\* key that is there keeps its place and gets the new entry.
AddCheck(dish, check_time, check) ==
    LET held == {i \in 1..Len(dish.quality_checks) :
                    dish.quality_checks[i].key = check_time}
    IN  IF held = {}
        THEN [dish EXCEPT !.quality_checks =
                  Append(@, [key |-> check_time, check |-> check])]
        ELSE [dish EXCEPT !.quality_checks =
                  [i \in 1..Len(@) |->
                      IF i \in held THEN [key |-> check_time, check |-> check]
                      ELSE @[i]]]

\* FishDishController.add_quality_check
AddQualityCheck(dish_id, check_time, num_dead) ==
    \E dish \in GetDish(dm.files, dish_id) :
        IF dish.kind # "dish" THEN NotFound("add_quality_check", dish_id)
        ELSE SaveLoaded("add_quality_check", dish_id,
                        AddCheck(dish, check_time,
                                 DictCheck(JInt(num_dead), FALSE, 0)))

\* A variant that leaves the termination fields when a dish is set active.
WithStatusOnly(dish, status, termination_date, termination_reason) ==
    IF status = "inactive"
    THEN [dish EXCEPT !.status = status,
                      !.termination_date =
                          IF termination_date \in {NoneStr, <<>>} THEN Today
                          ELSE termination_date,
                      !.termination_reason = termination_reason]
    ELSE [dish EXCEPT !.status = status]

\* dish.status = status, and the termination fields: the date given or
\* today's, and the reason, for "inactive"; None for any other status.
WithStatus(dish, status, termination_date, termination_reason) ==
    IF status = "inactive"
    THEN [dish EXCEPT !.status = status,
                      !.termination_date =
                          IF termination_date \in {NoneStr, <<>>} THEN Today
                          ELSE termination_date,
                      !.termination_reason = termination_reason]
    ELSE [dish EXCEPT !.status = status,
                      !.termination_date = NoneStr,
                      !.termination_reason = NoneStr]

\* FishDishController.update_dish_status
UpdateDishStatus(dish_id, status, termination_date, termination_reason) ==
    \E dish \in GetDish(dm.files, dish_id) :
        IF dish.kind # "dish" THEN NotFound("update_dish_status", dish_id)
        ELSE SaveLoaded("update_dish_status", dish_id,
                        WithStatus(dish, status, termination_date,
                                   termination_reason))

StoreCreate ==
    /\ \E n \in NewDishes, fish_count \in {MaxCount - 1, MaxCount} :
           CreateDish(n.cross_id, n.dish_number, fish_count)
    /\ UNCHANGED <<dir_exists, files, output_file, call, cli>>

StoreAddCheck ==
    /\ \E dish_id \in StoredIds, check_time \in CheckTimes,
          num_dead \in {0, MaxDead} :
           AddQualityCheck(dish_id, check_time, num_dead)
    /\ UNCHANGED <<dir_exists, files, output_file, call, cli>>

StoreUpdateStatus ==
    /\ \E dish_id \in StoredIds :
           \/ UpdateDishStatus(dish_id, "active", NoneStr, NoneStr)
           \/ \E termination_date \in {NoneStr, <<>>, GivenDate} :
                  UpdateDishStatus(dish_id, "inactive", termination_date,
                                   IF termination_date = GivenDate
                                   THEN GivenReason ELSE NoneStr)
    /\ UNCHANGED <<dir_exists, files, output_file, call, cli>>

StoreNext == StoreCreate \/ StoreAddCheck \/ StoreUpdateStatus


Init ==
    /\ dir_exists \in BOOLEAN
    /\ files \in (IF dir_exists THEN Directories ELSE {<<>>})
    /\ output_file \in {NoFile, EarlierFile}
    /\ call = NoCall
    /\ cli = NoRun
    /\ dm = NoStore

Spec == Init /\ [][Next]_vars

\* A run of the script, from its start.
CliInit ==
    /\ dir_exists = FALSE
    /\ files = <<>>
    /\ output_file = NoFile
    /\ call = NoCall
    /\ cli \in Runs
    /\ dm = NoStore

CliSpec == CliInit /\ [][CliNext]_vars

\* The store from an empty dish directory, the cache of the data manager
\* loaded (from the empty directory) or not.
StoreInit ==
    /\ dir_exists = FALSE
    /\ files = <<>>
    /\ output_file = NoFile
    /\ call = NoCall
    /\ cli = NoRun
    /\ dm \in {[NoStore EXCEPT !.cache_ready = b] : b \in BOOLEAN}

StoreSpec == StoreInit /\ [][StoreNext]_vars

----------------------------------------------------------------------------
(* What the claims speak of.                                               *)

\* The rows of the report that carry a dish_id, in report order.
RowsOf(report_rows, dish_id) ==
    SelectSeq(report_rows, LAMBDA row : row.dish_id = dish_id)

NoChecks(dish) == dish.quality_checks = <<>>

\* Every structured check of the dish has a number (or nothing) as num_dead.
NumericChecks(dish) ==
    \A i \in 1..Len(dish.quality_checks) :
        dish.quality_checks[i].check.type = "dict"
            => dish.quality_checks[i].check.num_dead.t \in {"int", "absent"}

\* The total of the deaths stored in the checks of a dish.
RECURSIVE TotalDeaths(_)
TotalDeaths(quality_checks) ==
    IF quality_checks = <<>> THEN 0
    ELSE LET check == Head(quality_checks).check
         IN  (IF check.type = "dict" /\ check.num_dead.t = "int"
              THEN check.num_dead.v ELSE 0)
             + TotalDeaths(Tail(quality_checks))

Loaded == {call.dishes_data[i] : i \in 1..Len(call.dishes_data)}

\* The sum of f over a set.
RECURSIVE SumOver(_, _)
SumOver(set, f) ==
    IF set = {} THEN 0
    ELSE LET x == CHOOSE y \in set : TRUE
         IN  f[x] + SumOver(set \ {x}, f)

----------------------------------------------------------------------------
\* C1: for every dish whose checks hold numbers, the last row the detailed
\* builder emits for it has remaining = fish_count - (total deaths of its
\* checks), negative when the deaths exceed fish_count.
C1_LastRowRemaining ==
    call.op = "report" =>
        \A dish \in Loaded :
            LET rows == RowsOf(call.data, dish.dish_id)
            IN  (NumericChecks(dish) /\ rows # <<>>) =>
                    rows[Len(rows)].remaining
                        = dish.fish_count - TotalDeaths(dish.quality_checks)

\* A report in which a dish with two rows ends below zero.
C1_Witness ==
    /\ call.op = "report"
    /\ \E dish \in Loaded :
           LET rows == RowsOf(call.data, dish.dish_id)
           IN  /\ NumericChecks(dish)
               /\ Len(rows) >= 2
               /\ TotalDeaths(dish.quality_checks) > dish.fish_count
               /\ rows[Len(rows)].remaining < 0

\* C2: along the rows emitted for one dish, cumulative_deaths never goes
\* down, whatever integers the checks store as num_dead.
C2_CumulativeNonDecreasing ==
    call.op = "report" =>
        \A dish \in Loaded :
            LET rows == RowsOf(call.data, dish.dish_id)
            IN  \A i \in 1..(Len(rows) - 1) :
                    rows[i].cumulative_deaths <= rows[i + 1].cumulative_deaths

\* C3: a dish whose processing raises while its rows are built has no row
\* in the detailed report, and every other dish keeps its rows.
C3_RaisingDishHasNoRow ==
    call.op = "report" =>
        \A dish \in Loaded :
            IF ~NoChecks(dish) /\ ~NumericChecks(dish)
            THEN RowsOf(call.data, dish.dish_id) = <<>>
            ELSE RowsOf(call.data, dish.dish_id)
                     = ProcessSurvivabilityData(<<dish>>)

\* C4: a dish whose processing raises during the summary contributes to no
\* group: the summary is the one of the remaining dishes.
C4_RaisingDishNotSummarized ==
    call.op = "summary" =>
        call.data = ProcessSummaryData(
                        SelectSeq(call.dishes_data,
                                  LAMBDA dish : NoChecks(dish) \/ NumericChecks(dish)))

\* C5: the summary has one row for each distinct (cross_id, genotype, dof)
\* among the dishes that have checks, and no two rows share a tuple.
C5_OneRowPerTuple ==
    call.op = "summary" =>
        LET tuples == {<<d.cross_id, d.genotype, d.dof>> :
                          d \in {x \in Loaded : ~NoChecks(x)}}
        IN  /\ Len(call.data) = Cardinality(tuples)
            /\ \A t \in tuples :
                   \E i \in 1..Len(call.data) :
                       <<call.data[i].cross_id, call.data[i].genotype,
                         call.data[i].date_fertilized>> = t

\* C6: in every summary row, dish_count, total_initial and total_surviving
\* are the number, the fish_count total and the total of
\* max(0, fish_count - deaths) of the dishes that contribute to the group.
C6_GroupTotals ==
    call.op = "summary" =>
        \A i \in 1..Len(call.data) :
            LET row == call.data[i]
                key == GroupKey(row.cross_id, row.genotype, row.date_fertilized)
                members == {d \in Loaded :
                               /\ ~NoChecks(d)
                               /\ NumericChecks(d)
                               /\ GroupKey(d.cross_id, d.genotype, d.dof) = key}
                Initial == [d \in members |-> d.fish_count]
                Surviving == [d \in members |->
                                 Max(0, d.fish_count - TotalDeaths(d.quality_checks))]
            IN  /\ row.dish_count = Cardinality(members)
                /\ row.total_initial = SumOver(members, Initial)
                /\ row.total_surviving = SumOver(members, Surviving)

\* C7: a dish whose quality_checks is empty or absent has no row in the
\* detailed report and is counted in no summary group.
C7_EmptyDishContributesNothing ==
    /\ call.op = "report" =>
           \A dish \in Loaded :
               NoChecks(dish) => RowsOf(call.data, dish.dish_id) = <<>>
    /\ call.op = "summary" =>
           \A i \in 1..Len(call.data) :
               LET row == call.data[i]
                   key == GroupKey(row.cross_id, row.genotype, row.date_fertilized)
                   members == {d \in Loaded :
                                  /\ ~NoChecks(d)
                                  /\ GroupKey(d.cross_id, d.genotype, d.dof) = key}
                   Initial == [d \in members |-> d.fish_count]
                   Surviving == [d \in members |->
                       IF NumericChecks(d)
                       THEN Max(0, d.fish_count - TotalDeaths(d.quality_checks))
                       ELSE 0]
               IN  /\ members # {}
                   /\ row.dish_count = Cardinality(members)
                   /\ row.total_initial = SumOver(members, Initial)
                   /\ row.total_surviving = SumOver(members, Surviving)

\* A summary of a directory holding a dish without checks next to a dish
\* with checks.
C7_Witness ==
    /\ call.op = "summary"
    /\ call.data # <<>>
    /\ \E dish \in Loaded : NoChecks(dish) /\ dish.has_quality_checks
    /\ \E dish \in Loaded : ~NoChecks(dish)

\* No loaded dish has a quality check (the directory may be missing, empty,
\* or hold only files that do not load).
NoDataToExport ==
    \A i \in 1..Len(files) :
        (dir_exists /\ files[i].json = "object" /\ files[i].has_dish_id)
            => NoChecks(files[i])

\* C8: when there is nothing to export, an export returns False and leaves
\* the output path as it was.
C8_NoDataNoFile ==
    [][NoDataToExport => (call'.ret = FALSE /\ output_file' = output_file)]_vars

\* A failed summary of dishes that all lack checks, the earlier file still
\* in place.
C8_Witness ==
    /\ NoDataToExport
    /\ call.op = "summary"
    /\ call.ret = FALSE
    /\ call.dishes_data # <<>>
    /\ output_file = EarlierFile

\* C9: an export whose write fails returns False and leaves no partial
\* file: the output path is as it was before the call, or has no file.
C9_NoPartialFile ==
    [][call'.failure # "none" =>
           (call'.ret = FALSE /\ output_file' \in {output_file, NoFile})]_vars

\* C10: the loader returns exactly the files that hold a JSON mapping with a
\* dish_id, and nothing for a directory that does not exist.
C10_LoaderKeepsValidFiles ==
    call.op # "none" =>
        LET valid == {i \in 1..Len(files) :
                         dir_exists /\ files[i].json = "object"
                                    /\ files[i].has_dish_id}
        IN  /\ Len(call.dishes_data) = Cardinality(valid)
            /\ \A i \in valid : files[i] \in Loaded
            /\ \A dish \in Loaded : \E i \in valid : files[i] = dish

\* One file that is not JSON next to one valid dish: one dish is loaded.
C10_Witness ==
    /\ call.op # "none"
    /\ Len(files) = 2
    /\ \E i \in 1..2 : files[i].json = "invalid"
    /\ Len(call.dishes_data) = 1

----------------------------------------------------------------------------
\* C11: no exception leaves an export: whatever the directory holds and
\* whatever happens at the output path, every failure (nothing loaded, an
\* exception while the rows are built, a failed open or write) ends in a
\* return of False.
C11_NoExceptionPropagates ==
    call.op # "none" =>
        /\ ~call.propagated
        /\ (call.failure # "none" \/ call.dishes_data = <<>>) => call.ret = FALSE

\* A summary whose sort raised on a cross_id of None next to a str, turned
\* into a return of False.
C11_Witness ==
    /\ call.op = "summary"
    /\ call.failure = "process"
    /\ \E i, j \in 1..Len(call.dishes_data) :
           IsNone(call.dishes_data[i].cross_id)
               /\ ~IsNone(call.dishes_data[j].cross_id)
    /\ call.ret = FALSE

\* A quotient equals num / den (den is not 0).
RateIs(rate, num, den) == rate.den # 0 /\ rate.num * den = num * rate.den

\* C12: every detailed row has survival_rate = remaining / fish_count * 100
\* when fish_count > 0, which is 100 while no death is recorded, and 0 when
\* fish_count = 0; no rate has a zero denominator.
C12_RowSurvivalRate ==
    call.op = "report" =>
        \A i \in 1..Len(call.data) :
            LET row == call.data[i]
            IN  /\ row.survival_rate.den # 0
                /\ IF row.initial_count > 0
                   THEN /\ RateIs(row.survival_rate,
                                  row.remaining * 100, row.initial_count)
                        /\ row.cumulative_deaths = 0
                               => RateIs(row.survival_rate, 100, 1)
                   ELSE RateIs(row.survival_rate, 0, 1)

\* A report with two rows of a dish of no fish, the remaining of one 0 and
\* of the other not.
C12_Witness ==
    /\ call.op = "report"
    /\ \E i \in 1..Len(call.data) :
           call.data[i].initial_count = 0 /\ call.data[i].remaining # 0
    /\ \E i \in 1..Len(call.data) :
           call.data[i].initial_count = 0 /\ call.data[i].remaining = 0

\* C13: every summary row has survival_rate = total_surviving /
\* total_initial * 100 when total_initial > 0, and 0 otherwise.
C13_GroupSurvivalRate ==
    call.op = "summary" =>
        \A i \in 1..Len(call.data) :
            LET row == call.data[i]
            IN  IF row.total_initial > 0
                THEN RateIs(row.survival_rate,
                            row.total_surviving * 100, row.total_initial)
                ELSE RateIs(row.survival_rate, 0, 1)

\* A summary with a group of no initial fish that has a survivor (a stored
\* negative num_dead).
C13_Witness ==
    /\ call.op = "summary"
    /\ \E i \in 1..Len(call.data) :
           call.data[i].total_initial = 0 /\ call.data[i].total_surviving > 0

\* The greatest canonical date among the checks of a dish, structured or
\* legacy (the empty string when it has none).
LatestCheckDate(dish) ==
    LET checks == ExtractCheckData(dish.quality_checks)
        dates == {checks[i].date : i \in 1..Len(checks)}
    IN  IF dates = {} THEN <<>>
        ELSE CHOOSE d \in dates : \A e \in dates : ~StrLess(d, e)

\* The days from the fertilization of a dish to its latest check.
DaysToLatestCheck(dish) ==
    IF LatestCheckDate(dish) = <<>> THEN 0
    ELSE CalculateDaysBetween(dish.dof, LatestCheckDate(dish))

\* The greatest number of a set (0 for the empty set).
MaxOver(set) == IF set = {} THEN 0 ELSE CHOOSE m \in set : \A x \in set : x <= m

\* C14: in every summary row, max_days is the greatest, over the dishes
\* that contribute to the group, of the days between the dof of the dish
\* and its latest check date, the lexicographically greatest canonical date
\* among the checks of the dish.
C14_MaxDays ==
    call.op = "summary" =>
        \A i \in 1..Len(call.data) :
            LET row == call.data[i]
                key == GroupKey(row.cross_id, row.genotype, row.date_fertilized)
                members == {d \in Loaded :
                               /\ ~NoChecks(d)
                               /\ NumericChecks(d)
                               /\ GroupKey(d.cross_id, d.genotype, d.dof) = key}
            IN  row.max_days = MaxOver({DaysToLatestCheck(d) : d \in members})

\* C15: the summary rows are in ascending order of (cross_id, genotype).
C15_SummarySorted ==
    call.op = "summary" =>
        \A i, j \in 1..Len(call.data) :
            i < j => ~GroupLess(call.data[j], call.data[i])

\* A summary of two groups whose first row is not the group of the dish
\* that was loaded first.
C15_Witness ==
    /\ call.op = "summary"
    /\ Len(call.data) >= 2
    /\ <<call.data[1].cross_id, call.data[1].genotype>>
           # <<call.dishes_data[1].cross_id, call.dishes_data[1].genotype>>

\* The position of a dish among the loaded dishes.
LoadIndex(dish_id) ==
    CHOOSE k \in 1..Len(call.dishes_data) : call.dishes_data[k].dish_id = dish_id

\* C16: the detailed report holds one row per check of each dish (none for
\* a dish that is skipped, for want of checks or for an exception), the
\* rows of a dish are in ascending order of canonical date, and the rows of
\* the dishes follow one another in the order the dishes were loaded.
C16_OneRowPerCheckInOrder ==
    call.op = "report" =>
        /\ \A dish \in Loaded :
               LET rows == RowsOf(call.data, dish.dish_id)
               IN  /\ Len(rows) = IF NumericChecks(dish)
                                  THEN Len(ExtractCheckData(dish.quality_checks))
                                  ELSE 0
                   /\ \A i \in 1..(Len(rows) - 1) :
                          ~StrLess(rows[i + 1].check_date, rows[i].check_date)
        /\ \A i, j \in 1..Len(call.data) :
               i < j => LoadIndex(call.data[i].dish_id)
                            <= LoadIndex(call.data[j].dish_id)

----------------------------------------------------------------------------
(* The script and the dish store.                                          *)

\* C18: when the script is run with --dishes-dir, every export it runs
\* reads the dish files of that directory, the data manager initialized
\* before the run or not.
C18_OverrideIsRead ==
    cli.dishes_dir # "" =>
        \A i \in 1..Len(cli.read) : cli.read[i] = cli.dishes_dir

\* The dishes that are stored: the files that hold a dish.
StoredDishes == {dm.files[s] : s \in {t \in Stems : dm.files[t].kind = "dish"}}

\* C19: the fish_count of a stored dish is the one given when the dish was
\* created, whatever checks were added and whatever status was set since.
C19_FishCountFrozen ==
    \A dish \in StoredDishes : dish.fish_count = dm.created[dish.dish_id]

\* A dish that was given a check with dead fish and was then set inactive.
C19_Witness ==
    \E dish \in StoredDishes :
        /\ dish.status = "inactive"
        /\ dish.fish_count = MaxCount
        /\ \E i \in 1..Len(dish.quality_checks) :
               dish.quality_checks[i].check.num_dead = JInt(MaxDead)
        /\ dm.last.op = "update_dish_status"
        /\ dm.last.ret

\* C20: a stored dish whose status is active has no termination_date and
\* no termination_reason, and one whose status is inactive has a
\* termination_date that is not empty.
C20_TerminationOnlyWhenInactive ==
    \A dish \in StoredDishes :
        /\ dish.status = "active" =>
               /\ dish.termination_date = NoneStr
               /\ dish.termination_reason = NoneStr
        /\ dish.status = "inactive" => dish.termination_date \notin {NoneStr, <<>>}

\* A dish set inactive with no date given, which got today's, next to a
\* dish with a check added that a status update has just left active.
C20_Witness ==
    /\ dm.last.op = "update_dish_status"
    /\ dm.last.ret
    /\ \E dish \in StoredDishes :
           /\ dish.status = "inactive"
           /\ dish.termination_date = Today
           /\ dish.termination_reason = NoneStr
    /\ \E dish \in StoredDishes :
           /\ dish.status = "active"
           /\ dish.dish_id = dm.last.dish_id
           /\ Len(dish.quality_checks) = 2

\* The check entries of a stored file: those of the dish it holds.
ChecksOf(file) == IF file.kind = "dish" THEN file.quality_checks ELSE <<>>

\* C21: when add_quality_check succeeds, every check entry that was stored
\* before the call is still stored, under its key and with its content; and
\* no operation removes a dish file.
C21_ChecksOnlyAppended ==
    [][/\ (dm'.last.op = "add_quality_check" /\ dm'.last.ret) =>
              \A s \in Stems :
                  \A i \in 1..Len(ChecksOf(dm.files[s])) :
                      \E j \in 1..Len(ChecksOf(dm'.files[s])) :
                          ChecksOf(dm'.files[s])[j] = ChecksOf(dm.files[s])[i]
       /\ \A s \in Stems :
              dm.files[s].kind # "absent" => dm'.files[s].kind # "absent"]_vars

----------------------------------------------------------------------------
(* The detailed rows, field by field.                                      *)

\* C22: every detailed row repeats the static fields of its dish as they
\* are stored: room is the string of enclosure.room, in_beaker is "Yes" or
\* "No" as the stored flag, water_changed is "Yes" or "No", and
\* vol_water_changed is 0 unless water_changed is true.
C22_StaticFieldsRepeated ==
    call.op = "report" =>
        \A dish \in Loaded : \A i \in 1..Len(call.data) :
            LET row == call.data[i]
            IN  row.dish_id = dish.dish_id =>
                    /\ row.cross_id = dish.cross_id
                    /\ row.genotype = dish.genotype
                    /\ row.date_fertilized = dish.dof
                    /\ row.initial_count = dish.fish_count
                    /\ dish.enclosure.stored =>
                           /\ row.room = dish.enclosure.room
                           /\ row.in_beaker =
                                  (IF dish.enclosure.in_beaker THEN "Yes" ELSE "No")
                           /\ row.vol_water_total = dish.enclosure.vol_water_total
                    /\ row.water_changed \in {"Yes", "No"}
                    /\ row.water_changed = "No" => row.vol_water_changed = 0

\* The entries of a dish that are checks, structured or legacy, in the
\* order they are stored.
ValidEntries(dish) ==
    SelectSeq(dish.quality_checks, LAMBDA item : item.check.type \in {"dict", "str"})

\* The canonical date of a check_time key: its first 8 characters when it
\* holds a ':', the key itself otherwise.
CanonicalDate(check_time) ==
    IF \E i \in 1..Len(check_time) : check_time[i] = ":"
    THEN [i \in 1..(IF Len(check_time) < 8 THEN Len(check_time) ELSE 8) |->
              check_time[i]]
    ELSE check_time

\* C23: the date of the row of a check, structured or legacy, is the
\* canonical date of its key: the first 8 characters of a key that holds a
\* ':', and the key itself otherwise.
C23_CanonicalDateOfEveryEntry ==
    call.op = "report" =>
        \A dish \in Loaded :
            (NumericChecks(dish) /\ ~SkipDish(dish)) =>
                LET rows == RowsOf(call.data, dish.dish_id)
                    entries == ValidEntries(dish)
                IN  /\ Len(rows) = Len(entries)
                    /\ {rows[i].check_date : i \in 1..Len(rows)}
                           = {CanonicalDate(entries[i].key) : i \in 1..Len(entries)}

\* C23, amended: the date of the row of a structured check is the canonical
\* date of its key, and the date of the row of a legacy check is its key as
\* it is, with or without a ':'.
C23_DateOfEntry ==
    call.op = "report" =>
        \A dish \in Loaded :
            (NumericChecks(dish) /\ ~SkipDish(dish)) =>
                LET rows == RowsOf(call.data, dish.dish_id)
                    entries == ValidEntries(dish)
                IN  /\ Len(rows) = Len(entries)
                    /\ {rows[i].check_date : i \in 1..Len(rows)}
                           = {IF entries[i].check.type = "str" THEN entries[i].key
                              ELSE CanonicalDate(entries[i].key) :
                                  i \in 1..Len(entries)}

\* A report with the two rows of a dish that has a legacy check under a key
\* with a time: one row dated with that key in full, the other with the day.
C23_Witness ==
    /\ call.op = "report"
    /\ \E dish \in Loaded :
           /\ \E i \in 1..Len(dish.quality_checks) :
                  /\ dish.quality_checks[i].check.type = "str"
                  /\ dish.quality_checks[i].key = CheckKeys[3]
           /\ \E i \in 1..Len(call.data) :
                  /\ call.data[i].dish_id = dish.dish_id
                  /\ call.data[i].check_date = CheckKeys[3]
           /\ \E i \in 1..Len(call.data) :
                  /\ call.data[i].dish_id = dish.dish_id
                  /\ call.data[i].check_date = CheckKeys[2]

\* The date derived for an entry, and the deaths it records.
DerivedDate(item) ==
    IF item.check.type = "str" THEN item.key ELSE CanonicalDate(item.key)

EntryDeaths(item) ==
    IF item.check.type = "dict" /\ item.check.num_dead.t = "int"
    THEN item.check.num_dead.v ELSE 0

\* The deaths of the rows, and of the entries, of one date, in their order.
RowDeathsOn(rows, date) ==
    LET on == SelectSeq(rows, LAMBDA row : row.check_date = date)
    IN  [i \in 1..Len(on) |-> on[i].fish_deaths]

EntryDeathsOn(entries, date) ==
    LET on == SelectSeq(entries, LAMBDA item : DerivedDate(item) = date)
    IN  [i \in 1..Len(on) |-> EntryDeaths(on[i])]

HasMalformedEntry(dish) ==
    \E i \in 1..Len(dish.quality_checks) :
        dish.quality_checks[i].check.type = "other"

\* C25: an entry of a dish that is neither a structured check nor a string
\* gives no row and leaves remaining as it is, and every other check of the
\* dish gives its row.
C25_MalformedEntrySkipped ==
    call.op = "report" =>
        \A dish \in Loaded :
            (HasMalformedEntry(dish) /\ NumericChecks(dish)) =>
                LET rows == RowsOf(call.data, dish.dish_id)
                    entries == ValidEntries(dish)
                IN  /\ Len(rows) = Len(entries)
                    /\ \A i \in 1..Len(entries) :
                           \E j \in 1..Len(rows) :
                               /\ rows[j].check_date = DerivedDate(entries[i])
                               /\ rows[j].fish_deaths = EntryDeaths(entries[i])
                    /\ rows # <<>> =>
                           rows[Len(rows)].remaining
                               = dish.fish_count - TotalDeaths(dish.quality_checks)

\* A dish whose first entry is no check and whose second records a death:
\* the report holds the one row of the second.
C25_Witness ==
    /\ call.op = "report"
    /\ \E dish \in Loaded :
           LET rows == RowsOf(call.data, dish.dish_id)
           IN  /\ Len(dish.quality_checks) = 2
               /\ dish.quality_checks[1].check.type = "other"
               /\ dish.quality_checks[2].check = DictCheck(JInt(MaxDead), FALSE, 0)
               /\ Len(rows) = 1
               /\ rows[1].remaining = dish.fish_count - MaxDead

\* strptime raises on the text.
DoesNotParse(text) == ~ParseDate(text).ok

\* C26: the row of a check has days_since_fertilization = 0 when the dof of
\* its dish or its own date does not parse; the row is in the report all
\* the same, with the deaths, the remaining and the rate of its check.
C26_UnparsedDateGivesZeroDays ==
    call.op = "report" =>
        \A dish \in Loaded :
            (NumericChecks(dish) /\ ~SkipDish(dish)) =>
                LET rows == RowsOf(call.data, dish.dish_id)
                IN  /\ Len(rows) = Len(ValidEntries(dish))
                    /\ \A i \in 1..Len(rows) :
                           (DoesNotParse(dish.dof) \/ DoesNotParse(rows[i].check_date))
                               => /\ rows[i].days_since_fertilization = 0
                                  /\ rows[i].remaining =
                                         dish.fish_count
                                         - SumOver(1..i, [j \in 1..i |->
                                                             rows[j].fish_deaths])
                                  /\ rows[i].cumulative_deaths =
                                         dish.fish_count - rows[i].remaining
                                  /\ rows[i].survival_rate =
                                         SurvivalRate(rows[i].remaining, dish.fish_count)

\* The report of a dish whose dof is no date: a row of a check whose date
\* is one and that records a death, and a row dated with a key with a time,
\* both with 0 days.
C26_Witness ==
    /\ call.op = "report"
    /\ call.ret
    /\ \E dish \in Loaded :
           LET rows == RowsOf(call.data, dish.dish_id)
           IN  /\ dish.dof = ShortDof
               /\ \E i \in 1..Len(rows) :
                      /\ rows[i].check_date = CheckKeys[2]
                      /\ rows[i].fish_deaths = MaxDead
                      /\ rows[i].days_since_fertilization = 0
               /\ \E i \in 1..Len(rows) :
                      /\ rows[i].check_date = CheckKeys[3]
                      /\ rows[i].days_since_fertilization = 0

----------------------------------------------------------------------------
(* Lookup and saving in the dish store.                                    *)

\* The file of the dish of an id.
FileOf(dish_id) == FileStem(dish_id, Dof)

\* A dish of this very id is stored.
IsStored(dish_id) ==
    \E s \in Stems : dm.files[s].kind = "dish" /\ dm.files[s].dish_id = dish_id

\* C27: a lookup by id yields nothing or the dish of that very id, also
\* when one id followed by '_' starts another (X_1 and X_1_2); hence
\* add_quality_check and update_dish_status on an id change no file but
\* that of its dish, and create_dish is rejected as 'already exists' only
\* when a dish of that very id is stored.
C27_LookupByExactId ==
    [][/\ \A dish_id \in StoredIds : \A dish \in GetDish(dm.files, dish_id) :
              dish.kind = "dish" => dish.dish_id = dish_id
       /\ dm'.last.op \in {"add_quality_check", "update_dish_status"} =>
              \A s \in Stems \ {FileOf(dm'.last.dish_id)} :
                  dm'.files[s] = dm.files[s]
       /\ (dm'.last.op = "create_dish" /\ dm'.last.message = "already exists")
              => IsStored(dm'.last.dish_id)]_vars

\* C28: save_fish_dish returns True exactly when the dish file was written:
\* when it returns False, the dish files and the cache are as they were,
\* the cache of the data manager loaded or not; when it returns True, the
\* file of the dish holds a dish.
C28_SaveTrueIffWritten ==
    [][/\ dm'.last.message = "failed to save" =>
              /\ dm'.files = dm.files
              /\ dm'.cache = dm.cache
       /\ dm'.last.message = "saved" =>
              \E s \in Stems : /\ dm'.files[s].kind = "dish"
                               /\ dm'.cache[dm'.files[s].dish_id] = dm'.files[s]]_vars

----------------------------------------------------------------------------
(* The two reports side by side.                                           *)

\* The rows the detailed report has for a dish of the directory that the
\* summary was made from.
DetailedRows(dish) ==
    RowsOf(ProcessSurvivabilityData(call.dishes_data), dish.dish_id)

\* A dish with a check that counts, all of whose checks are sound.
SoundDish(dish) == ValidEntries(dish) # <<>> /\ NumericChecks(dish)

\* C29: the two reports agree dish by dish: a dish is counted in the
\* dish_count of its group exactly when it has a row in the detailed
\* report, and a dish with a valid check that is processed without error
\* adds max(0, remaining) of its last detailed row to total_surviving.
C29_ReportsAgree ==
    (call.op = "summary" /\ ~SummaryRaises(call.dishes_data)) =>
        \A i \in 1..Len(call.data) :
            LET row == call.data[i]
                key == GroupKey(row.cross_id, row.genotype, row.date_fertilized)
                members == {d \in Loaded :
                               GroupKey(d.cross_id, d.genotype, d.dof) = key}
                with_rows == {d \in members : DetailedRows(d) # <<>>}
                Last == [d \in with_rows |->
                            Max(0, DetailedRows(d)[Len(DetailedRows(d))].remaining)]
            IN  /\ row.dish_count = Cardinality(with_rows)
                /\ (\A d \in members : SoundDish(d) \/ SkipDish(d)) =>
                       row.total_surviving = SumOver(with_rows, Last)

\* C30: in every summary row 0 <= total_surviving <= total_initial and
\* 0 <= survival_rate <= 100, for the dishes the loader accepts
\* (fish_count is never negative in them).
C30_SurvivingWithinInitial ==
    call.op = "summary" =>
        \A i \in 1..Len(call.data) :
            LET row == call.data[i]
            IN  /\ 0 <= row.total_surviving
                /\ row.total_surviving <= row.total_initial
                /\ row.survival_rate.den > 0
                /\ 0 <= row.survival_rate.num
                /\ row.survival_rate.num <= 100 * row.survival_rate.den

====
